---- MODULE Spec2Model ----
(***************************************************************************)
(* EpochDLWithShuffle (examples/multithreaded_with_batches.ipynb): a        *)
(* dataloader that shuffles its dataset once per epoch, seeded by the      *)
(* number of restarts, and hands each of the subprocesses of a             *)
(* MultiThreadedAugmenter every W-th stripe of batch_size elements.        *)
(*                                                                         *)
(* dl[p]  is the loader object owned by subprocess p (its own copy).       *)
(* log[p] is the history of what generate_train_batch gave subprocess p:   *)
(*        one entry per call, a batch or StopIteration.                    *)
(* shared_data tells whether the _data of all loaders is one list object   *)
(*        (workers that are threads) or a copy each (subprocesses).        *)
(***************************************************************************)
EXTENDS Integers, Sequences, FiniteSets, TLC

VARIABLES dl, log, shared_data

vars == <<dl, log, shared_data>>

(* ------------------------------ bounds --------------------------------- *)

MaxLen == 6

MaxBatch == 2

MaxWorkers == 3

MaxEpochs == 2

\* How far the augmenter's number of subprocesses may be from the worker
\* count the loader was given.
MaxMismatch == 1

\* The longest dataset of the runs with such a difference.
MaxMisLen == 4

\* The runs that compare threads with subprocesses.
MaxThreadLen == 3

MaxThreads == 2

MaxThreadEpochs == 1

\* No valid loader needs more calls than this to finish MaxEpochs epochs; it
\* caps the loaders whose cursor never reaches the end of the data.
MaxPulls == MaxEpochs * (MaxLen + 1)

(* ------------------------- the demo's configuration -------------------- *)

DemoLen == 107

DemoBatchSize == 4

DemoThreads == 12

DemoEpochs == 3

(* ------------------------------ Python --------------------------------- *)

Min(a, b) == IF a <= b THEN a ELSE b

Max(a, b) == IF a >= b THEN a ELSE b

\* list(range(n)); Python position i is position i + 1 of the sequence.
PyRange(n) == [i \in 1..n |-> i - 1]

\* A slice bound as Python clamps it: a negative bound counts from the end.
PyBound(n, i) == IF i < 0 THEN Max(n + i, 0) ELSE Min(i, n)

\* s[lo:hi]
PySlice(s, lo, hi) ==
  LET a == PyBound(Len(s), lo)
      b == PyBound(Len(s), hi)
  IN  IF a < b THEN [k \in 1..(b - a) |-> s[a + k]] ELSE <<>>

\* x[i], x[j] = x[j], x[i]   (Python positions)
Swap(x, i, j) ==
  IF i = j THEN x
  ELSE LET lo == Min(i, j) + 1
           hi == Max(i, j) + 1
       IN  SubSeq(x, 1, lo - 1) \o <<x[hi]>> \o SubSeq(x, lo + 1, hi - 1)
             \o <<x[lo]>> \o SubSeq(x, hi + 1, Len(x))

(* ------------------------ np.random.RandomState ------------------------ *)

\* The generator is a deterministic stream that depends on the seed alone.
\* Its state after seeding:
RandomState(seed) == seed

\* One step of the stream (a linear congruential stand-in for the twister).
rk_next(s) == (s * 75 + 74) % 65537

\* rs.shuffle(x): for i in reversed(range(1, len(x))): j = draw in [0, i];
\* swap x[i] and x[j].
RECURSIVE shuffle_from(_, _, _)
shuffle_from(s, x, i) ==
  IF i < 1 \/ i >= Len(x) THEN x
  ELSE LET s1 == rk_next(s)
           j  == s1 % (i + 1)
       IN  shuffle_from(s1, Swap(x, i, j), i - 1)

shuffle(rs, x) == shuffle_from(rs, x, Len(x) - 1)

(* --------------------------- EpochDLWithShuffle ------------------------ *)

\* SlimDataLoaderBase.__init__ as the loader's constructor documents it: it
\* initializes _data, batch_size and number_of_threads_in_multithreaded.
SlimDataLoaderBase(data, batch_size, num_threads_in_mt) ==
  [data |-> data,
   batch_size |-> batch_size,
   number_of_threads_in_multithreaded |-> num_threads_in_mt,
   thread_id |-> 0]

\* __init__
EpochDLWithShuffle(data, num_threads_in_mt, batch_size) ==
  LET base == SlimDataLoaderBase(data, batch_size, num_threads_in_mt)
  IN  [data |-> base.data,
       batch_size |-> base.batch_size,
       number_of_threads_in_multithreaded |-> base.number_of_threads_in_multithreaded,
       thread_id |-> base.thread_id,
       num_restarted |-> 0,
       current_position |-> 0,
       was_initialized |-> FALSE]

\* reset() with the worker's id mixed into the seed.
reset_seed_per_worker(self) ==
  LET rs == RandomState(self.num_restarted + self.thread_id)
  IN  [self EXCEPT !.data = shuffle(rs, self.data),
                   !.was_initialized = TRUE,
                   !.num_restarted = self.num_restarted + 1,
                   !.current_position = self.thread_id * self.batch_size]

\* reset() starting at the worker's id, not at its first stripe.
reset_start_at_id(self) ==
  LET rs == RandomState(self.num_restarted)
  IN  [self EXCEPT !.data = shuffle(rs, self.data),
                   !.was_initialized = TRUE,
                   !.num_restarted = self.num_restarted + 1,
                   !.current_position = self.thread_id]

\* reset() that forgets to count the restart.
reset_not_counted(self) ==
  LET rs == RandomState(self.num_restarted)
  IN  [self EXCEPT !.data = shuffle(rs, self.data),
                   !.was_initialized = TRUE,
                   !.current_position = self.thread_id * self.batch_size]

\* reset() that leaves the cursor where the last epoch ended.
reset_keep_position(self) ==
  LET rs == RandomState(self.num_restarted)
  IN  [self EXCEPT !.data = shuffle(rs, self.data),
                   !.was_initialized = TRUE,
                   !.num_restarted = self.num_restarted + 1]

\* reset()
reset(self) ==
  LET rs == RandomState(self.num_restarted)
  IN  [self EXCEPT !.data = shuffle(rs, self.data),
                   !.was_initialized = TRUE,
                   !.num_restarted = self.num_restarted + 1,
                   !.current_position = self.thread_id * self.batch_size]

\* generate_train_batch() that skips its own batch only, not the batches of
\* the other subprocesses.
generate_train_batch_own_stride(self) ==
  LET s1  == IF ~self.was_initialized THEN reset(self) ELSE self
      idx == s1.current_position
  IN  IF idx < Len(s1.data)
      THEN [self  |-> [s1 EXCEPT !.current_position = idx + s1.batch_size],
            kind  |-> "batch",
            idx   |-> idx,
            batch |-> PySlice(s1.data, idx, Min(Len(s1.data), idx + s1.batch_size))]
      ELSE [self  |-> [s1 EXCEPT !.was_initialized = FALSE],
            kind  |-> "StopIteration",
            idx   |-> idx,
            batch |-> <<>>]

\* generate_train_batch() that stops when no full batch is left.
generate_train_batch_full_only(self) ==
  LET s1  == IF ~self.was_initialized THEN reset(self) ELSE self
      idx == s1.current_position
  IN  IF idx + s1.batch_size <= Len(s1.data)
      THEN [self  |-> [s1 EXCEPT !.current_position =
                         idx + s1.batch_size * s1.number_of_threads_in_multithreaded],
            kind  |-> "batch",
            idx   |-> idx,
            batch |-> PySlice(s1.data, idx, Min(Len(s1.data), idx + s1.batch_size))]
      ELSE [self  |-> [s1 EXCEPT !.was_initialized = FALSE],
            kind  |-> "StopIteration",
            idx   |-> idx,
            batch |-> <<>>]

\* generate_train_batch() that leaves was_initialized set at the end of an
\* epoch.
generate_train_batch_keep_flag(self) ==
  LET s1  == IF ~self.was_initialized THEN reset(self) ELSE self
      idx == s1.current_position
  IN  IF idx < Len(s1.data)
      THEN [self  |-> [s1 EXCEPT !.current_position =
                         idx + s1.batch_size * s1.number_of_threads_in_multithreaded],
            kind  |-> "batch",
            idx   |-> idx,
            batch |-> PySlice(s1.data, idx, Min(Len(s1.data), idx + s1.batch_size))]
      ELSE [self  |-> s1,
            kind  |-> "StopIteration",
            idx   |-> idx,
            batch |-> <<>>]

\* generate_train_batch() that still answers at idx = len(data).
generate_train_batch_past_end(self) ==
  LET s1  == IF ~self.was_initialized THEN reset(self) ELSE self
      idx == s1.current_position
  IN  IF idx <= Len(s1.data)
      THEN [self  |-> [s1 EXCEPT !.current_position =
                         idx + s1.batch_size * s1.number_of_threads_in_multithreaded],
            kind  |-> "batch",
            idx   |-> idx,
            batch |-> PySlice(s1.data, idx, Min(Len(s1.data), idx + s1.batch_size))]
      ELSE [self  |-> [s1 EXCEPT !.was_initialized = FALSE],
            kind  |-> "StopIteration",
            idx   |-> idx,
            batch |-> <<>>]

\* generate_train_batch() that reshuffles at once at the end of an epoch.
generate_train_batch_eager_reset(self) ==
  LET s1  == IF ~self.was_initialized THEN reset(self) ELSE self
      idx == s1.current_position
  IN  IF idx < Len(s1.data)
      THEN [self  |-> [s1 EXCEPT !.current_position =
                         idx + s1.batch_size * s1.number_of_threads_in_multithreaded],
            kind  |-> "batch",
            idx   |-> idx,
            batch |-> PySlice(s1.data, idx, Min(Len(s1.data), idx + s1.batch_size))]
      ELSE [self  |-> reset(s1),
            kind  |-> "StopIteration",
            idx   |-> idx,
            batch |-> <<>>]

\* generate_train_batch() that does not move the cursor.
generate_train_batch_no_advance(self) ==
  LET s1  == IF ~self.was_initialized THEN reset(self) ELSE self
      idx == s1.current_position
  IN  IF idx < Len(s1.data)
      THEN [self  |-> s1,
            kind  |-> "batch",
            idx   |-> idx,
            batch |-> PySlice(s1.data, idx, Min(Len(s1.data), idx + s1.batch_size))]
      ELSE [self  |-> [s1 EXCEPT !.was_initialized = FALSE],
            kind  |-> "StopIteration",
            idx   |-> idx,
            batch |-> <<>>]

\* generate_train_batch(): the object after the call and what the call gave,
\* a batch (kind "batch") or StopIteration.
generate_train_batch(self) ==
  LET s1  == IF ~self.was_initialized THEN reset(self) ELSE self
      idx == s1.current_position
  IN  IF idx < Len(s1.data)
      THEN [self  |-> [s1 EXCEPT !.current_position =
                         idx + s1.batch_size * s1.number_of_threads_in_multithreaded],
            kind  |-> "batch",
            idx   |-> idx,
            batch |-> PySlice(s1.data, idx, Min(Len(s1.data), idx + s1.batch_size))]
      ELSE [self  |-> [s1 EXCEPT !.was_initialized = FALSE],
            kind  |-> "StopIteration",
            idx   |-> idx,
            batch |-> <<>>]

(* ------------------------- MultiThreadedAugmenter ---------------------- *)

\* Every subprocess works on its own copy of the loader, and the augmenter
\* sets the copy's thread_id to the subprocess's number.
set_thread_id(self, thread_id) == [self EXCEPT !.thread_id = thread_id]

MultiThreadedAugmenter(data_loader, num_processes) ==
  [p \in 0..(num_processes - 1) |-> set_thread_id(data_loader, p)]

(* ------------------------------ history -------------------------------- *)

Procs == DOMAIN dl

\* Number of StopIteration among the first k entries of a log.
RECURSIVE StopsUpTo(_, _)
StopsUpTo(lg, k) ==
  IF k <= 0 THEN 0
  ELSE StopsUpTo(lg, k - 1) + (IF lg[k].kind = "StopIteration" THEN 1 ELSE 0)

Stops(lg) == StopsUpTo(lg, Len(lg))

\* The epoch (0, 1, ...) of the loader in which entry k of the log was made.
EpochOf(lg, k) == StopsUpTo(lg, k - 1)

(* ------------------------------ actions -------------------------------- *)

\* Subprocess p calls next(data_loader) once.
CanPull(p, maxEpochs, maxPulls) ==
  /\ p \in Procs
  /\ Stops(log[p]) < maxEpochs
  /\ Len(log[p]) < maxPulls

\* The call by subprocess p with every loader object, not the list alone,
\* being one object of all workers.
Pull_one_object(p) ==
  LET r == generate_train_batch(dl[p])
  IN  /\ dl' = [q \in Procs |-> r.self]
      /\ log' = [log EXCEPT ![p] = Append(@,
                   [kind        |-> r.kind,
                    idx         |-> r.idx,
                    batch       |-> r.batch,
                    reshuffled  |-> ~dl[p].was_initialized,
                    before      |-> dl[p],
                    after       |-> r.self])]
      /\ shared_data' = shared_data

\* rs.shuffle(self._data) reorders the list in place: when the list is one
\* object of all loaders, every loader sees the new order.
Pull(p) ==
  LET r == generate_train_batch(dl[p])
  IN  /\ dl' = [q \in Procs |->
                  IF q = p THEN r.self
                  ELSE IF shared_data THEN [dl[q] EXCEPT !.data = r.self.data]
                  ELSE dl[q]]
      /\ log' = [log EXCEPT ![p] = Append(@,
                   [kind        |-> r.kind,
                    idx         |-> r.idx,
                    batch       |-> r.batch,
                    reshuffled  |-> ~dl[p].was_initialized,
                    before      |-> dl[p],
                    after       |-> r.self])]
      /\ shared_data' = shared_data

Next == \E p \in Procs : CanPull(p, MaxEpochs, MaxPulls) /\ Pull(p)

\* The loaders of a run: a dataset list(range(L)), a batch size, the worker
\* count given to the loader and the number of subprocesses of the augmenter.
Run(L, B, W, D) ==
  /\ dl = MultiThreadedAugmenter(EpochDLWithShuffle(PyRange(L), W, B), D)
  /\ log = [p \in 0..(D - 1) |-> <<>>]
  /\ shared_data = FALSE

\* The demo's rule: the same worker count goes to the loader and the augmenter.
Init ==
  \E L \in 0..MaxLen, B \in 1..MaxBatch, W \in 1..MaxWorkers :
    Run(L, B, W, W)

\* Runs in which the augmenter is or is not given the loader's worker count.
InitMis ==
  \E L \in 0..MaxMisLen, B \in 1..MaxBatch, W \in 1..MaxWorkers, D \in 1..MaxWorkers :
    /\ D - W <= MaxMismatch
    /\ W - D <= MaxMismatch
    /\ Run(L, B, W, D)

SpecMis == InitMis /\ [][Next]_vars

Spec == Init /\ [][Next]_vars

\* The loops of the subprocesses call next(data_loader) again and again:
\* while some worker can be called, a call is made in the end.  This is weak
\* fairness of Next, written with the condition under which Next can take a
\* step (a call always adds to the log): some worker can be called.
CanCall == \E p \in Procs : CanPull(p, MaxEpochs, MaxPulls)

Fairness == []<>(~CanCall) \/ []<><<Next>>_vars

SpecLive == Init /\ [][Next]_vars /\ Fairness

\* Two independent runs of one configuration next to each other: subprocess
\* 0 is worker t of the first run and subprocess 1 is worker u of the second
\* (the same worker when t = u).
InitTwin ==
  \E L \in 0..MaxLen, B \in 1..MaxBatch, W \in 1..MaxWorkers :
    \E t \in 0..(W - 1), u \in 0..(W - 1) :
      /\ dl = [p \in 0..1 |->
                 set_thread_id(EpochDLWithShuffle(PyRange(L), W, B), IF p = 0 THEN t ELSE u)]
      /\ log = [p \in 0..1 |-> <<>>]
      /\ shared_data = FALSE

SpecTwin == InitTwin /\ [][Next]_vars

\* The W workers as subprocesses (a copy of the list each) or as threads (one
\* list): a call is taken as one step, which is the least interleaving
\* threads have.
InitThreads ==
  \E L \in 0..MaxThreadLen, B \in 1..MaxBatch, W \in 1..MaxThreads, s \in BOOLEAN :
    /\ dl = MultiThreadedAugmenter(EpochDLWithShuffle(PyRange(L), W, B), W)
    /\ log = [p \in 0..(W - 1) |-> <<>>]
    /\ shared_data = s

NextThreads == \E p \in Procs : CanPull(p, MaxThreadEpochs, MaxPulls) /\ Pull(p)

SpecThreads == InitThreads /\ [][NextThreads]_vars

\* Any integers as batch_size and num_threads_in_mt: nothing in __init__
\* looks at them.  A loader whose worker count is no process count is pulled
\* by one process.
InitArgs ==
  \E L \in 0..MaxLen, B \in (-1)..MaxBatch, W \in (-1)..MaxWorkers :
    Run(L, B, W, Max(W, 1))

SpecArgs == InitArgs /\ [][Next]_vars

\* The demo: 107 items, batches of 4, 12 subprocesses, which the loop over
\* the augmenter serves in turn.
InitDemo == Run(DemoLen, DemoBatchSize, DemoThreads, DemoThreads)

DemoCanPull(p) == CanPull(p, DemoEpochs, DemoEpochs * (DemoLen + 1))

DemoTurn(p) ==
  \A q \in Procs :
    DemoCanPull(q) =>
      \/ Len(log[q]) > Len(log[p])
      \/ Len(log[q]) = Len(log[p]) /\ q >= p

NextDemo == \E p \in Procs : DemoCanPull(p) /\ DemoTurn(p) /\ Pull(p)

SpecDemo == InitDemo /\ [][NextDemo]_vars

(* ------------------------ reading the configuration -------------------- *)

\* The loaders of a run are copies of one loader: they agree on these.
L == Len(dl[0].data)

B == dl[0].batch_size

W == dl[0].number_of_threads_in_multithreaded

D == Cardinality(Procs)

\* The batches subprocess p was given in its epoch e, as log positions.
BatchesOf(p, e) ==
  {k \in 1..Len(log[p]) : log[p][k].kind = "batch" /\ EpochOf(log[p], k) = e}

\* Every element returned in epoch e: <<p, k, i>> is element i of the batch
\* at position k of subprocess p's log.
Returned(e) ==
  UNION {UNION {{<<p, k, i>> : i \in 1..Len(log[p][k].batch)} : k \in BatchesOf(p, e)}
         : p \in Procs}

ElementAt(t) == log[t[1]][t[2]].batch[t[3]]

\* The last batch subprocess p was given in its epoch e.
LastBatch(p, e) ==
  log[p][CHOOSE k \in BatchesOf(p, e) : \A j \in BatchesOf(p, e) : j <= k]

\* The epochs every subprocess has run to its StopIteration.
FinishedEpochs ==
  LET done == {Stops(log[p]) : p \in Procs}
      least == CHOOSE m \in done : \A n \in done : m <= n
  IN  0..(least - 1)

(* ------------------------------- claims -------------------------------- *)

\* C1 (coverage): when the augmenter runs the W workers the loader was told
\* of (ids 0..W-1), the batches the workers return in an epoch that all of
\* them have run to StopIteration hold L elements in total and every element
\* of the dataset exactly once.
C1_Coverage ==
  \A e \in FinishedEpochs :
    D = W =>
      /\ Cardinality(Returned(e)) = L
      /\ \A x \in 0..(L - 1) :
           Cardinality({t \in Returned(e) : ElementAt(t) = x}) = 1

\* A finished first epoch of several workers whose dataset does not divide
\* into whole rounds of stripes.
C1_Witness ==
  /\ D = W /\ W >= 2 /\ L > B * W /\ L % (B * W) # 0 /\ L % B # 0
  /\ 0 \in FinishedEpochs

\* C2 (determinism): loaders that started from the same dataset order and
\* have the same num_restarted hold the same order, whatever their worker
\* ids; and two loaders with the same worker id, batch size and W were given
\* the same result at every call both have made.
C2_Determinism ==
  \A p \in Procs, q \in Procs :
    /\ dl[p].num_restarted = dl[q].num_restarted => dl[p].data = dl[q].data
    /\ dl[p].thread_id = dl[q].thread_id =>
         \A k \in 1..Min(Len(log[p]), Len(log[q])) :
           /\ log[p][k].kind = log[q][k].kind
           /\ log[p][k].idx = log[q][k].idx
           /\ log[p][k].batch = log[q][k].batch

\* The same worker of two runs, each in its second epoch after a batch of
\* it, on a reordered dataset, one run a call ahead of the other.
C2_Witness ==
  /\ dl[0].thread_id = dl[1].thread_id /\ dl[0].thread_id > 0
  /\ \A p \in Procs : dl[p].num_restarted = 2 /\ dl[p].was_initialized
  /\ \A p \in Procs : log[p][Len(log[p])].kind = "batch"
  /\ Len(log[0]) = Len(log[1]) + 1
  /\ dl[0].data # PyRange(L)

\* C3 (stride): the cursor right after a reset() is thread_id * batch_size;
\* a call that returns a batch reads the cursor where the call before left it
\* (or where reset() put it) and leaves it batch_size * W further; so every
\* batch of worker w < W starts at an index idx with (idx / B) mod W = w.
C3_Stride ==
  \A p \in Procs : \A k \in 1..Len(log[p]) :
    LET c == log[p][k]
        w == c.before.thread_id
    IN  /\ c.reshuffled => c.idx = w * B
        /\ ~c.reshuffled => c.idx = c.before.current_position
        /\ c.kind = "batch" =>
             /\ c.after.current_position = c.idx + B * W
             /\ w < W => (c.idx \div B) % W = w

\* A worker other than worker 0 returned its third batch of an epoch.
C3_Witness ==
  \E p \in Procs :
    /\ dl[p].thread_id > 0 /\ W > 1
    /\ \E k \in 2..Len(log[p]) :
         /\ log[p][k].kind = "batch" /\ log[p][k - 1].kind = "batch"
         /\ ~log[p][k - 1].reshuffled

\* C4 as stated (boundary case 107 / 4 / 12): worker 0's final batch of the
\* epoch is the stripe at idx = 104 and has 3 elements, every other batch of
\* the epoch has 4, and the epoch returns 107 elements.
C4_BoundaryWorker0 ==
  \A e \in FinishedEpochs :
    /\ LastBatch(0, e).idx = 104
    /\ Len(LastBatch(0, e).batch) = 3
    /\ \A p \in Procs : \A k \in BatchesOf(p, e) :
         log[p][k].idx # 104 => Len(log[p][k].batch) = 4
    /\ Cardinality(Returned(e)) = 107

\* C4 (boundary case 107 / 4 / 12), amended: the stripe at idx = 104 is the
\* final batch of worker 2 (stripe 26, and 26 mod 12 = 2) and has
\* min(4, 107 - 104) = 3 elements; worker 0's final batch is the full stripe
\* at idx = 96; every other batch of the epoch has 4 elements, and the epoch
\* returns 107 elements.
C4_Boundary ==
  \A e \in FinishedEpochs :
    /\ LastBatch(2, e).idx = 104
    /\ Len(LastBatch(2, e).batch) = Min(4, 107 - 104)
    /\ Len(LastBatch(2, e).batch) = 3
    /\ LastBatch(0, e).idx = 96
    /\ \A p \in Procs : \A k \in BatchesOf(p, e) :
         log[p][k].idx # 104 => Len(log[p][k].batch) = 4
    /\ Cardinality(Returned(e)) = 107

\* The twelve workers of the demo have finished an epoch on a reordered
\* dataset.
C4_Witness ==
  /\ L = 107 /\ B = 4 /\ W = 12 /\ D = 12
  /\ 0 \in FinishedEpochs
  /\ dl[2].data # PyRange(107)

\* The cursors of the stripes of worker w, and their number.
StripeStart(w, n) == w * B + n * B * W

NumStripes(w) == Cardinality({n \in 0..L : StripeStart(w, n) < L})

\* The first call of subprocess p in its epoch e, as a log position.
FirstOf(p, e) == Cardinality({k \in 1..Len(log[p]) : EpochOf(log[p], k) < e}) + 1

\* C5 (re-epoch): the call that follows a StopIteration reshuffles first,
\* with a seed other than the one of the epoch that ended, reads the cursor
\* at thread_id * batch_size, and the calls up to the next StopIteration
\* return exactly the worker's stripes of the order the data has after that
\* reshuffle, in turn.
C5_ReEpoch ==
  \A p \in Procs : \A k \in 2..Len(log[p]) :
    log[p][k - 1].kind = "StopIteration" =>
      LET c    == log[p][k]
          w    == c.before.thread_id
          e    == EpochOf(log[p], k)
          perm == c.after.data
      IN  /\ c.reshuffled
          /\ c.before.num_restarted # log[p][FirstOf(p, e - 1)].before.num_restarted
          /\ c.idx = w * B
          /\ Stops(log[p]) > e =>
               /\ \A n \in 0..(NumStripes(w) - 1) :
                    /\ log[p][k + n].kind = "batch"
                    /\ log[p][k + n].batch =
                         PySlice(perm, StripeStart(w, n), StripeStart(w, n) + B)
               /\ log[p][k + NumStripes(w)].kind = "StopIteration"

\* A worker ran a second epoch of two batches or more, on another order than
\* its first.
C5_Witness ==
  \E p \in Procs :
    /\ Stops(log[p]) = 2 /\ NumStripes(dl[p].thread_id) >= 2 /\ dl[p].thread_id > 0
    /\ log[p][1].after.data # dl[p].data

\* C6 (restart counter): num_restarted is 0 before the first call, every
\* call that reshuffles leaves it one higher, every other call leaves it as
\* it was, nothing changes it between calls, and it is the number of
\* reshuffles the worker has made.
C6_RestartCounter ==
  \A p \in Procs :
    /\ dl[p].num_restarted = Cardinality({k \in 1..Len(log[p]) : log[p][k].reshuffled})
    /\ \A k \in 1..Len(log[p]) :
         LET c == log[p][k]
         IN  /\ c.before.num_restarted = (IF k = 1 THEN 0 ELSE log[p][k - 1].after.num_restarted)
             /\ c.after.num_restarted = c.before.num_restarted + (IF c.reshuffled THEN 1 ELSE 0)
             /\ c.after.num_restarted >= c.before.num_restarted
    /\ Len(log[p]) > 0 => dl[p].num_restarted = log[p][Len(log[p])].after.num_restarted

\* A worker reshuffled twice and made calls that did not reshuffle.
C6_Witness ==
  \E p \in Procs :
    /\ dl[p].num_restarted = 2
    /\ Len(log[p]) >= 4

\* C7 as stated (invalid arguments): a loader with batch_size <= 0 or a
\* worker count <= 0 is rejected at construction, so none is ever pulled.
C7_InvalidArgumentsRejected ==
  \A p \in Procs :
    (dl[p].batch_size <= 0 \/ dl[p].number_of_threads_in_multithreaded <= 0) =>
      Len(log[p]) = 0

\* C8 as stated (misconfiguration fail-fast): when the worker count of the
\* loader differs from the number of subprocesses the augmenter runs, no
\* call returns a batch.
C8_MismatchReturnsNoBatch ==
  D # W => \A p \in Procs : \A k \in 1..Len(log[p]) : log[p][k].kind # "batch"

\* The batches of epoch e that are shorter than batch_size.
Truncated(e) ==
  UNION {{<<p, k>> : k \in {j \in BatchesOf(p, e) : Len(log[p][j].batch) < B}}
         : p \in Procs}

\* C9 (batch size): every returned batch is the run of elements of the
\* shuffled dataset that starts at the cursor the call reads (the cursor the
\* call before left, or thread_id * batch_size after the call's own reset),
\* has 1..batch_size elements, and is shorter than batch_size only when it
\* ends at position L; in an epoch of the W workers at most one batch is
\* shorter, and it has L mod B elements.
C9_BatchSize ==
  /\ \A p \in Procs : \A k \in 1..Len(log[p]) :
       LET c == log[p][k]
           n == Len(c.batch)
       IN  c.kind = "batch" =>
             /\ c.idx = (IF c.reshuffled THEN c.before.thread_id * B
                                         ELSE c.before.current_position)
             /\ n >= 1 /\ n <= B
             /\ \A i \in 1..n : c.batch[i] = c.after.data[c.idx + i]
             /\ n < B => c.idx + n = L
  /\ \A e \in 0..(MaxEpochs - 1) :
       /\ Cardinality(Truncated(e)) <= 1
       /\ \A t \in Truncated(e) : Len(log[t[1]][t[2]].batch) = L % B

\* In its second epoch a worker other than worker 0 was given the short last
\* stripe, after worker 0 was given a full one.
C9_Witness ==
  \E p \in Procs : \E k \in 1..Len(log[p]) :
    /\ p > 0 /\ B > 1
    /\ log[p][k].kind = "batch" /\ Len(log[p][k].batch) < B
    /\ EpochOf(log[p], k) = 1
    /\ \E j \in BatchesOf(0, 1) : Len(log[0][j].batch) = B

Ceil(a, b) == (a + b - 1) \div b

\* C10 (batches per epoch): in every epoch that the W workers have all run
\* to StopIteration (the first and the following one), they returned
\* ceil(L / B) batches in total, worker w ceil(max(0, L - w*B) / (B*W)) of
\* them.
C10_BatchesPerEpoch ==
  \A e \in FinishedEpochs :
    /\ Cardinality(UNION {{<<p, k>> : k \in BatchesOf(p, e)} : p \in Procs}) = Ceil(L, B)
    /\ \A p \in Procs :
         Cardinality(BatchesOf(p, e)) =
           Ceil(Max(0, L - dl[p].thread_id * B), B * W)

\* Two finished epochs of several workers, one of which has no stripe, with
\* a short last batch.
C10_Witness ==
  /\ FinishedEpochs = {0, 1}
  /\ W >= 2 /\ L % B # 0 /\ L > B
  /\ \E p \in Procs : BatchesOf(p, 1) = {}

\* The order reset() gives the list of a loader object.
AfterReset(self) == shuffle(RandomState(self.num_restarted), self.data)

\* C11 (end-of-epoch transition): a call gives StopIteration exactly when
\* the cursor idx it reads after its lazy reset, if any, is at or past
\* len(data); it then returns no batch, clears was_initialized and leaves
\* cursor, num_restarted and order of the data as the lazy reset left them;
\* otherwise it returns a batch and sets no end of epoch.
C11_EndOfEpoch ==
  \A p \in Procs : \A k \in 1..Len(log[p]) :
    LET c == log[p][k]
    IN  /\ c.idx = (IF c.reshuffled THEN c.before.thread_id * B
                                    ELSE c.before.current_position)
        /\ (c.kind = "StopIteration") <=> (c.idx >= L)
        /\ c.kind = "StopIteration" =>
             /\ c.batch = <<>>
             /\ ~c.after.was_initialized
             /\ c.after.current_position = c.idx
             /\ c.after.num_restarted =
                  c.before.num_restarted + (IF c.reshuffled THEN 1 ELSE 0)
             /\ c.after.data = (IF c.reshuffled THEN AfterReset(c.before)
                                                ELSE c.before.data)
        /\ c.kind # "StopIteration" =>
             /\ c.kind = "batch"
             /\ c.batch # <<>>
             /\ c.after.was_initialized

\* An end of epoch read with the cursor exactly at len(data), after batches
\* of a second epoch.
C11_Witness ==
  \E p \in Procs : \E k \in 1..Len(log[p]) :
    /\ log[p][k].kind = "StopIteration" /\ ~log[p][k].reshuffled
    /\ log[p][k].idx = L /\ L > 0
    /\ EpochOf(log[p], k) = 1

\* Some element was returned twice in epoch e / by no call of epoch e.
Overlap(e) ==
  \E t \in Returned(e), u \in Returned(e) : t # u /\ ElementAt(t) = ElementAt(u)

Gap(e) == \E x \in 0..(L - 1) : \A t \in Returned(e) : ElementAt(t) # x

\* C12 as stated (misconfiguration effect): whenever the loader's W differs
\* from the number D of workers that run, the batches of a finished epoch
\* overlap or leave a gap, whatever L and B (stated here for the datasets
\* that have an element).
C12_MismatchAlwaysBreaks ==
  \A e \in FinishedEpochs : (D # W /\ L > 0) => (Overlap(e) \/ Gap(e))

\* C12 (misconfiguration effect), amended: with D # W the batches of a
\* finished epoch overlap or leave a gap exactly when L > min(W, D) * B:
\* more workers than W return some element twice (and miss none), fewer
\* workers than W miss some element (and return none twice); a dataset of at
\* most min(W, D) * B elements is covered exactly once despite the mismatch.
C12_MismatchEffect ==
  \A e \in FinishedEpochs :
    /\ D > W => /\ Overlap(e) <=> (L > W * B)
                /\ ~Gap(e)
    /\ D < W => /\ Gap(e) <=> (L > D * B)
                /\ ~Overlap(e)

\* Finished epochs of both kinds of mismatch do occur with a dataset long
\* enough to show them: here one worker too few, past its first round.
C12_Witness ==
  /\ D < W /\ L > W * B
  /\ FinishedEpochs = {0, 1}
  /\ Gap(0) /\ Gap(1)

\* Every element of the dataset is returned exactly once in epoch e.
ExactCover(e) ==
  /\ Cardinality(Returned(e)) = L
  /\ ~Gap(e)

\* C13 (shared-dataset hazard): with a private copy of the list per worker
\* every finished epoch returns every element exactly once under every
\* interleaving of the calls; with one list for all workers the call of one
\* worker reorders the list under the others (all of them always see one and
\* the same order), and interleavings in which an epoch duplicates and omits
\* elements exist (the witness is one).
C13_SharedDataHazard ==
  /\ ~shared_data => \A e \in FinishedEpochs : ExactCover(e)
  /\ shared_data => \A p \in Procs, q \in Procs : dl[p].data = dl[q].data

\* Threads on one list finished an epoch in which an element came twice and
\* another never.
C13_Witness ==
  /\ shared_data
  /\ 0 \in FinishedEpochs
  /\ Overlap(0) /\ Gap(0)

\* The loader object subprocess p was started with.
Started(p) == set_thread_id(EpochDLWithShuffle(PyRange(L), W, B), p)

\* C14 (worker non-interference): between two calls of a worker, the calls
\* of the other workers (their lazy resets and ends of epoch included) leave
\* its cursor, was_initialized, num_restarted, thread_id and data as its own
\* last call left them, or as it was started; and a worker's own call never
\* changes its thread_id, batch_size or W.
C14_NonInterference ==
  \A p \in Procs :
    /\ dl[p] = (IF Len(log[p]) = 0 THEN Started(p) ELSE log[p][Len(log[p])].after)
    /\ \A k \in 1..Len(log[p]) :
         LET c == log[p][k]
         IN  /\ c.before = (IF k = 1 THEN Started(p) ELSE log[p][k - 1].after)
             /\ c.after.thread_id = c.before.thread_id
             /\ c.after.batch_size = c.before.batch_size
             /\ c.after.number_of_threads_in_multithreaded =
                  c.before.number_of_threads_in_multithreaded

\* One worker went through two lazy resets and an end of epoch while another
\* has not been called and a third is in the middle of its first epoch.
C14_Witness ==
  \E p \in Procs, q \in Procs, r \in Procs :
    /\ dl[p].num_restarted = 2 /\ dl[p].data # PyRange(L)
    /\ Len(log[q]) = 0
    /\ Len(log[r]) = 1 /\ dl[r].was_initialized

\* C15 (shuffle only between epochs): the order of a worker's data changes
\* only in a call that starts with was_initialized false; every call of an
\* epoch leaves the order the epoch's first call made, and every batch of
\* the epoch, also after later reshuffles, is the slice of that one order at
\* the batch's cursor.
C15_ShuffleBetweenEpochs ==
  \A p \in Procs : \A k \in 1..Len(log[p]) :
    LET c    == log[p][k]
        perm == log[p][FirstOf(p, EpochOf(log[p], k))].after.data
    IN  /\ c.reshuffled <=> ~c.before.was_initialized
        /\ c.before.was_initialized => c.after.data = c.before.data
        /\ c.after.data = perm
        /\ c.kind = "batch" => c.batch = PySlice(perm, c.idx, c.idx + B)

\* A worker is in its second epoch, on another order than in its first, of
\* which it returned two batches.
C15_Witness ==
  \E p \in Procs :
    /\ Cardinality(BatchesOf(p, 0)) >= 2
    /\ BatchesOf(p, 1) # {}
    /\ dl[p].data # log[p][1].after.data

\* C17 (flag tracks last call): was_initialized is true exactly when the
\* worker's last call returned a batch (false before the first call and
\* after a StopIteration), and while it is true the cursor is at least
\* thread_id * B and differs from it by a multiple of B * W.
C17_FlagTracksLastPull ==
  \A p \in Procs :
    /\ dl[p].was_initialized <=>
         (Len(log[p]) > 0 /\ log[p][Len(log[p])].kind = "batch")
    /\ \A k \in 1..Len(log[p]) :
         log[p][k].after.was_initialized <=> (log[p][k].kind = "batch")
    /\ dl[p].was_initialized =>
         /\ dl[p].current_position >= dl[p].thread_id * B
         /\ (dl[p].current_position - dl[p].thread_id * B) % (B * W) = 0

\* One worker after a StopIteration and another after its second batch.
C17_Witness ==
  \E p \in Procs, q \in Procs :
    /\ Stops(log[p]) = 1 /\ ~dl[p].was_initialized /\ Len(log[p]) >= 2
    /\ dl[q].was_initialized /\ dl[q].thread_id > 0
    /\ dl[q].current_position = dl[q].thread_id * B + 2 * B * W

\* The order of the data subprocess p worked on in its epoch e.
OrderOf(p, e) == log[p][FirstOf(p, e)].after.data

\* C18 (coverage under unsynchronised epochs): workers with equal
\* num_restarted hold equal orders, however far apart the workers are; so
\* for every epoch e that all workers have finished, whenever each of them
\* ran it, they all worked on one order, every position of it lies in the
\* batch of exactly one call, and no element came twice or never.
C18_UnsynchronisedCoverage ==
  /\ \A p \in Procs, q \in Procs :
       dl[p].num_restarted = dl[q].num_restarted => dl[p].data = dl[q].data
  /\ \A e \in FinishedEpochs :
       /\ \A p \in Procs, q \in Procs : OrderOf(p, e) = OrderOf(q, e)
       /\ \A i \in 0..(L - 1) :
            Cardinality(UNION {{<<p, k>> : k \in {j \in BatchesOf(p, e) :
                                   /\ log[p][j].idx <= i
                                   /\ i < log[p][j].idx + Len(log[p][j].batch)}}
                               : p \in Procs}) = 1
       /\ ~Overlap(e) /\ ~Gap(e)

\* One worker has finished its second epoch while another is still in the
\* middle of its second, on another order than the first worker holds now.
C18_Witness ==
  \E p \in Procs, q \in Procs :
    /\ L > B * W
    /\ Stops(log[p]) = 2
    /\ Stops(log[q]) = 1 /\ dl[q].was_initialized
    /\ FinishedEpochs = {0}

\* C19 (worker with no stripe): a worker whose start thread_id * B is at or
\* past len(data) reshuffles its copy in every call, which gives
\* StopIteration and no batch and leaves was_initialized false; after n
\* calls its num_restarted is n and it has returned nothing.
C19_NoStripeWorker ==
  \A p \in Procs :
    dl[p].thread_id * B >= L =>
      /\ dl[p].num_restarted = Len(log[p])
      /\ ~dl[p].was_initialized
      /\ \A k \in 1..Len(log[p]) :
           LET c == log[p][k]
           IN  /\ c.reshuffled
               /\ c.kind = "StopIteration"
               /\ c.batch = <<>>
               /\ c.after.data = AfterReset(c.before)
               /\ c.after.num_restarted = k
               /\ ~c.after.was_initialized

\* A worker past the end of a dataset that has elements was called twice,
\* and its copy was reordered.
C19_Witness ==
  \E p \in Procs :
    /\ L > 1 /\ dl[p].thread_id * B >= L
    /\ Len(log[p]) = 2
    /\ dl[p].data # PyRange(L)

\* C20 (no double exhaustion): for a worker with thread_id * B < len(data),
\* the first call and every call after a StopIteration return a batch that
\* is not empty and is the slice at thread_id * B of the order that call
\* made; no two calls in a row give StopIteration; and the worker has
\* reshuffled once per epoch it ended or is in.
C20_NoDoubleExhaustion ==
  \A p \in Procs :
    LET w == dl[p].thread_id
    IN  w * B < L =>
          /\ \A k \in 1..Len(log[p]) :
               (k = 1 \/ log[p][k - 1].kind = "StopIteration") =>
                 /\ log[p][k].kind = "batch"
                 /\ log[p][k].reshuffled
                 /\ log[p][k].batch # <<>>
                 /\ log[p][k].batch = PySlice(log[p][k].after.data, w * B, w * B + B)
          /\ \A k \in 2..Len(log[p]) :
               ~(log[p][k].kind = "StopIteration" /\ log[p][k - 1].kind = "StopIteration")
          /\ dl[p].num_restarted =
               Stops(log[p]) + (IF dl[p].was_initialized THEN 1 ELSE 0)
          /\ Cardinality({k \in 1..Len(log[p]) : log[p][k].reshuffled}) =
               dl[p].num_restarted

\* A worker other than worker 0 returned the first batch of its second
\* epoch.
C20_Witness ==
  \E p \in Procs :
    /\ dl[p].thread_id > 0
    /\ Stops(log[p]) = 1
    /\ log[p][Len(log[p])].kind = "batch"
    /\ log[p][Len(log[p]) - 1].kind = "StopIteration"

\* C16 (epoch termination): a worker that keeps being called is outside an
\* epoch (before its first call or after a StopIteration) again and again:
\* it never stays for ever in an epoch, returning batches.
C16_EpochTerminates ==
  \A p \in 0..(MaxWorkers - 1) :
    []<>(p \in Procs => ~dl[p].was_initialized)

\* A worker ended an epoch in which it returned three batches.
C16_Witness ==
  \E p \in Procs :
    /\ Stops(log[p]) >= 1
    /\ Cardinality(BatchesOf(p, 0)) >= 3

====
